---- MODULE Spec2Model ----
(***************************************************************************)
(* State-machine model of src/src/api/main.py: the streaming session       *)
(* handler websocket_endpoint with its two tasks (_heartbeat and           *)
(* _process_audio), and the request/response pipeline MusicService.        *)
(*                                                                         *)
(* All coroutines run on one asyncio event loop.  A coroutine gives up the *)
(* loop only at an await; an action below is the code from one await to    *)
(* the next.  A position named after a call ("send_ready", "add", ...)     *)
(* means the coroutine is suspended in that awaited call; the action that  *)
(* leaves the position is the call's completion (return or raise)          *)
(* followed by the synchronous code up to the next await.                  *)
(*                                                                         *)
(* ConnectionManager, AdaptiveBuffer, RedisCache and the audio and model   *)
(* collaborators are imported by main.py (lines 17-26) from packages that  *)
(* are not part of the source given; their operations are modelled from    *)
(* the specification (sections 4.1 - 4.3 and 6).                           *)
(***************************************************************************)
EXTENDS Integers, Sequences, FiniteSets

\* ---------------------------------------------------------------- bounds

\* Valid inbound messages the clients send, over all sessions.
MaxMsgs == 3

\* AdaptiveBuffer: backlog ceiling and the clamp of the adaptive window size,
\* counted in chunks (the specification leaves the values tunable).
Ceiling == 2
MinWindow == 1
MaxWindow == 2

Sessions == {"s1", "s2"}

\* The event loop is free, or held by the session whose processing task is
\* inside the synchronous call suggester.suggest (line 213).
Free == "free"

VARIABLES
  ws_pc,         \* websocket_endpoint: position of the handler coroutine
  ping_task,     \* state of the task running _heartbeat
  process_task,  \* state of the task running _process_audio
  buffer,        \* AdaptiveBuffer: chunks added and not yet emitted in a window
  registry,      \* ConnectionManager: the registered connections
  loop,          \* Free, or the session whose inline suggest holds the loop
  exc,           \* the exception that ended the handler's try block, or "none"
  peer_closed,   \* the client has closed the connection
  firstOut,      \* history: kind of the first outbound message of the session
  nReady,        \* history: ready messages sent
  nAdd,          \* history: buffer.add calls that returned
  nAck,          \* history: ack messages sent
  nDisconnect,   \* history: manager.disconnect calls made by the handler
  buffer_open,   \* AdaptiveBuffer: the buffer exists and has not been closed
  window,        \* _process_audio: local features, the window being processed
  result,        \* _process_audio: local chords, the result to send
  nWindow,       \* history: windows buffer.features() has emitted
  nChords        \* history: chords messages sent

sessVars == << ws_pc, ping_task, process_task, buffer, registry, loop, exc,
               peer_closed, firstOut, nReady, nAdd, nAck, nDisconnect,
               buffer_open, window, result, nWindow, nChords >>

VARIABLES
  svc_pc,        \* MusicService.__call__: position of the invocation
  file_path,     \* req.file_path
  audio_bytes,   \* local audio_bytes
  features,      \* local features
  chords,        \* local chords
  accompaniment, \* local accompaniment
  cache,         \* RedisCache: fingerprint -> chords, None where absent
  redis_up,      \* startup: app.state.redis is a client (TRUE) or None
  calls,         \* history: the collaborator calls the invocation has made
  got,           \* history: what cache.get_chords returned, "unset" before
  written,       \* history: the cache entries the invocation has set
  after          \* history: the invocations that had returned at the request

svcVars == << svc_pc, file_path, audio_bytes, features, chords, accompaniment,
              cache, redis_up, calls, got, written, after >>

vars == << sessVars, svcVars >>

\* ------------------------------------------------------------ task states

\* task.cancel(): a task that has finished (it raised) or was never created
\* is left as it is; any other task is cancelled and runs no further code.
Cancel(t) ==
  IF t \in {"none", "raised_send", "raised_suggest"} THEN t ELSE "cancelled"

\* The receive loop of the handler is between connect and the finally clause.
ReceiveRunning(s) == ws_pc[s] \in {"send_ready", "receive", "add", "send_ack"}

HeartbeatRunning(s) == ping_task[s] \in {"sleep", "send"}

ProcessRunning(s) == process_task[s] \in {"wait", "suggest", "send"}

\* History: the valid messages session s has taken from receive_json.
ReceivedBy(s) ==
  nAdd[s] + (IF ws_pc[s] = "add" \/ exc[s] = "capacity" THEN 1 ELSE 0)

RECURSIVE Received(_)
Received(S) ==
  IF S = {} THEN 0
  ELSE LET s == CHOOSE x \in S : TRUE IN ReceivedBy(s) + Received(S \ {s})

\* The first outbound message keeps its kind.
First(s, kind) == IF firstOut[s] = "none" THEN kind ELSE firstOut[s]

\* --------------------------------------------- spec-modelled collaborators

\* ConnectionManager.connect: registers the connection.
ManagerConnect(s) == registry \cup {s}

\* ConnectionManager.disconnect: idempotent removal from the registry.
ManagerDisconnect(s) == registry \ {s}

\* ConnectionManager.send_json raising: the session is marked dead, which
\* triggers disconnect, and the error reaches the caller.
ManagerSendFailed(s) == ManagerDisconnect(s)

\* AdaptiveBuffer.add: CapacityExceeded when the backlog is at the ceiling.
BufferHasRoom(s) == buffer[s] < Ceiling

\* AdaptiveBuffer.features: the sizes a window emitted now may have.
WindowSizes(s) == {k \in MinWindow..MaxWindow : k <= buffer[s]}

\* What cache.get_chords returns on a miss (line 146).
None == "None"

\* The collaborators: pure functions of their input (specification, 6).
load_audio(p) == IF p = "b.wav" THEN "pcm_b" ELSE "pcm_a"

extract_mfcc(b) == IF b = "pcm_b" THEN "mfcc_b" ELSE "mfcc_a"

denoise(f) == IF f = "mfcc_b" THEN "feat_b" ELSE "feat_a"

suggest(f) == IF f = "feat_b" THEN "Dm-G-C" ELSE "C-G-Am-F"

generate(c) == IF c = "Dm-G-C" THEN "bass:D-G-C" ELSE "bass:C-G-A-F"

Features == {"feat_a", "feat_b"}

\* RedisCache: the key a feature value is stored under.
Fingerprint(f) == IF f = "feat_b" THEN "fp_b" ELSE "fp_a"

Fingerprints == {Fingerprint(f) : f \in Features}

\* ------------------------------------------------------ websocket_endpoint

InitSessions ==
  /\ ws_pc = [s \in Sessions |-> "idle"]
  /\ ping_task = [s \in Sessions |-> "none"]
  /\ process_task = [s \in Sessions |-> "none"]
  /\ buffer = [s \in Sessions |-> 0]
  /\ registry = {}
  /\ loop = Free
  /\ exc = [s \in Sessions |-> "none"]
  /\ peer_closed = [s \in Sessions |-> FALSE]
  /\ firstOut = [s \in Sessions |-> "none"]
  /\ nReady = [s \in Sessions |-> 0]
  /\ nAdd = [s \in Sessions |-> 0]
  /\ nAck = [s \in Sessions |-> 0]
  /\ nDisconnect = [s \in Sessions |-> 0]
  /\ buffer_open = [s \in Sessions |-> FALSE]
  /\ window = [s \in Sessions |-> None]
  /\ result = [s \in Sessions |-> None]
  /\ nWindow = [s \in Sessions |-> 0]
  /\ nChords = [s \in Sessions |-> 0]

\* A variant of Finally that cancels the tasks of every session.
FinallyCancelsAll(s, e) ==
  /\ exc' = [exc EXCEPT ![s] = e]
  /\ ping_task' = [t \in Sessions |-> Cancel(ping_task[t])]
  /\ process_task' = [t \in Sessions |-> Cancel(process_task[t])]
  /\ window' = [window EXCEPT ![s] = None]
  /\ result' = [result EXCEPT ![s] = None]
  /\ ws_pc' = [ws_pc EXCEPT ![s] = "disconnect"]

\* A variant of Finally that leaves the processing task running.
FinallyLeavesProcessing(s, e) ==
  /\ exc' = [exc EXCEPT ![s] = e]
  /\ ping_task' = [ping_task EXCEPT ![s] = Cancel(@)]
  /\ UNCHANGED << process_task, window, result >>
  /\ ws_pc' = [ws_pc EXCEPT ![s] = "disconnect"]

\* Lines 233-238: the exception e leaves the try block; the finally clause
\* requests cancellation of both tasks and awaits manager.disconnect.  The
\* locals of a task go with the task.
Finally(s, e) ==
  /\ exc' = [exc EXCEPT ![s] = e]
  /\ ping_task' = [ping_task EXCEPT ![s] = Cancel(@)]
  /\ process_task' = [process_task EXCEPT ![s] = Cancel(@)]
  /\ window' = [window EXCEPT ![s] = None]
  /\ result' = [result EXCEPT ![s] = None]
  /\ ws_pc' = [ws_pc EXCEPT ![s] = "disconnect"]

\* Lines 222-227: manager.connect returns; the buffer and the two tasks are
\* created and the handler suspends in the send of the ready message.
\* manager.connect raising leaves the handler before the try block.
Connect(s) ==
  /\ loop = Free
  /\ ws_pc[s] = "idle"
  /\ \/ /\ registry' = ManagerConnect(s)
        /\ buffer' = [buffer EXCEPT ![s] = 0]
        /\ buffer_open' = [buffer_open EXCEPT ![s] = TRUE]
        /\ ping_task' = [ping_task EXCEPT ![s] = "sleep"]
        /\ process_task' = [process_task EXCEPT ![s] = "wait"]
        /\ ws_pc' = [ws_pc EXCEPT ![s] = "send_ready"]
        /\ UNCHANGED exc
     \/ /\ ws_pc' = [ws_pc EXCEPT ![s] = "closed"]
        /\ exc' = [exc EXCEPT ![s] = "connect"]
        /\ UNCHANGED << registry, buffer, buffer_open, ping_task,
                        process_task >>
  /\ UNCHANGED << loop, peer_closed, firstOut, nReady, nAdd, nAck, nDisconnect,
                  window, result, nWindow, nChords, svcVars >>

\* Line 227: the send of {"ready": True} completes, or raises.
SendReady(s) ==
  /\ loop = Free
  /\ ws_pc[s] = "send_ready"
  /\ \/ /\ ws_pc' = [ws_pc EXCEPT ![s] = "receive"]
        /\ nReady' = [nReady EXCEPT ![s] = @ + 1]
        /\ firstOut' = [firstOut EXCEPT ![s] = First(s, "ready")]
        /\ UNCHANGED << ping_task, process_task, exc, registry, window,
                        result >>
     \/ /\ Finally(s, "send")
        /\ registry' = ManagerSendFailed(s)
        /\ UNCHANGED << nReady, firstOut >>
  /\ UNCHANGED << buffer, loop, peer_closed, nAdd, nAck, nDisconnect,
                  buffer_open, nWindow,
                  nChords, svcVars >>

\* Lines 229-231: receive_json returns a message that validates as WSMessage
\* and the handler suspends in buffer.add.
ReceiveValid(s) ==
  /\ loop = Free
  /\ ws_pc[s] = "receive"
  /\ ~peer_closed[s]
  /\ Received(Sessions) < MaxMsgs
  /\ ws_pc' = [ws_pc EXCEPT ![s] = "add"]
  /\ UNCHANGED << ping_task, process_task, buffer, registry, loop, exc,
                  peer_closed, firstOut, nReady, nAdd, nAck, nDisconnect,
                  buffer_open, window,
                  result, nWindow, nChords, svcVars >>

\* Lines 229-230: receive_json returns an envelope without a valid data
\* field; WSMessage(**data) raises a validation error, which is not a
\* WebSocketDisconnect.
ReceiveMalformed(s) ==
  /\ loop = Free
  /\ ws_pc[s] = "receive"
  /\ ~peer_closed[s]
  /\ Finally(s, "validation")
  /\ UNCHANGED << buffer, registry, loop, peer_closed, firstOut, nReady, nAdd,
                  nAck, nDisconnect,
                  buffer_open, nWindow,
                  nChords, svcVars >>

\* The client closes the connection.  This is the network's step, not the
\* event loop's: it can happen while the loop is held.
ClientClose(s) ==
  /\ ws_pc[s] \in {"send_ready", "receive", "add", "send_ack"}
  /\ ~peer_closed[s]
  /\ peer_closed' = [peer_closed EXCEPT ![s] = TRUE]
  /\ UNCHANGED << ws_pc, ping_task, process_task, buffer, registry, loop, exc,
                  firstOut, nReady, nAdd, nAck, nDisconnect,
                  buffer_open, window,
                  result, nWindow, nChords, svcVars >>

\* Lines 229, 233-234: receive_json raises WebSocketDisconnect.
ReceiveDisconnect(s) ==
  /\ loop = Free
  /\ ws_pc[s] = "receive"
  /\ peer_closed[s]
  /\ Finally(s, "disconnect")
  /\ UNCHANGED << buffer, registry, loop, peer_closed, firstOut, nReady, nAdd,
                  nAck, nDisconnect,
                  buffer_open, nWindow,
                  nChords, svcVars >>

\* A variant of BufferAdd that swallows CapacityExceeded and acknowledges
\* the message all the same.
BufferAddAcksOnFailure(s) ==
  /\ loop = Free
  /\ ws_pc[s] = "add"
  /\ IF BufferHasRoom(s)
     THEN /\ buffer' = [buffer EXCEPT ![s] = @ + 1]
          /\ nAdd' = [nAdd EXCEPT ![s] = @ + 1]
     ELSE UNCHANGED << buffer, nAdd >>
  /\ ws_pc' = [ws_pc EXCEPT ![s] = "send_ack"]
  /\ UNCHANGED << ping_task, process_task, exc, registry, loop, peer_closed,
                  firstOut, nReady, nAck, nDisconnect, buffer_open, window,
                  result, nWindow, nChords, svcVars >>

\* Lines 231-232: buffer.add returns and the handler suspends in the send of
\* the ack, or buffer.add raises CapacityExceeded.
BufferAdd(s) ==
  /\ loop = Free
  /\ ws_pc[s] = "add"
  /\ IF BufferHasRoom(s)
     THEN /\ buffer' = [buffer EXCEPT ![s] = @ + 1]
          /\ nAdd' = [nAdd EXCEPT ![s] = @ + 1]
          /\ ws_pc' = [ws_pc EXCEPT ![s] = "send_ack"]
          /\ UNCHANGED << ping_task, process_task, exc, window, result >>
     ELSE /\ Finally(s, "capacity")
          /\ UNCHANGED << buffer, nAdd >>
  /\ UNCHANGED << registry, loop, peer_closed, firstOut, nReady, nAck,
                  nDisconnect,
                  buffer_open, nWindow,
                  nChords, svcVars >>

\* Lines 232, 228-229: the send of {"ack": True} completes and the loop goes
\* back to receive_json, or the send raises.
SendAck(s) ==
  /\ loop = Free
  /\ ws_pc[s] = "send_ack"
  /\ \/ /\ ws_pc' = [ws_pc EXCEPT ![s] = "receive"]
        /\ nAck' = [nAck EXCEPT ![s] = @ + 1]
        /\ firstOut' = [firstOut EXCEPT ![s] = First(s, "ack")]
        /\ UNCHANGED << ping_task, process_task, exc, registry, window,
                        result >>
     \/ /\ Finally(s, "send")
        /\ registry' = ManagerSendFailed(s)
        /\ UNCHANGED << nAck, firstOut >>
  /\ UNCHANGED << buffer, loop, peer_closed, nReady, nAdd, nDisconnect,
                  buffer_open, nWindow,
                  nChords, svcVars >>

\* Line 238: manager.disconnect returns and the handler ends.
Disconnect(s) ==
  /\ loop = Free
  /\ ws_pc[s] = "disconnect"
  /\ registry' = ManagerDisconnect(s)
  /\ nDisconnect' = [nDisconnect EXCEPT ![s] = @ + 1]
  /\ ws_pc' = [ws_pc EXCEPT ![s] = "closed"]
  /\ UNCHANGED << ping_task, process_task, buffer, loop, exc, peer_closed,
                  firstOut, nReady, nAdd, nAck,
                  buffer_open, window,
                  result, nWindow, nChords, svcVars >>

\* -------------------------------------------------------------- _heartbeat

\* Lines 204-205: asyncio.sleep(10) returns and the task suspends in
\* ws.send_json.
HeartbeatTick(s) ==
  /\ loop = Free
  /\ ping_task[s] = "sleep"
  /\ ping_task' = [ping_task EXCEPT ![s] = "send"]
  /\ UNCHANGED << ws_pc, process_task, buffer, registry, loop, exc, peer_closed,
                  firstOut, nReady, nAdd, nAck, nDisconnect,
                  buffer_open, window,
                  result, nWindow, nChords, svcVars >>

\* Lines 205, 203-204: the ping is sent and the task sleeps again, or
\* ws.send_json raises and ends the task.
HeartbeatSend(s) ==
  /\ loop = Free
  /\ ping_task[s] = "send"
  /\ \/ /\ ping_task' = [ping_task EXCEPT ![s] = "sleep"]
        /\ firstOut' = [firstOut EXCEPT ![s] = First(s, "ping")]
     \/ /\ ping_task' = [ping_task EXCEPT ![s] = "raised_send"]
        /\ UNCHANGED firstOut
  /\ UNCHANGED << ws_pc, process_task, buffer, registry, loop, exc, peer_closed,
                  nReady, nAdd, nAck, nDisconnect,
                  buffer_open, window,
                  result, nWindow, nChords, svcVars >>

\* ---------------------------------------------------------- _process_audio

\* Lines 212-213: buffer.features() yields a window and suggester.suggest is
\* called synchronously: the call runs on the event loop.
NextWindow(s) ==
  /\ loop = Free
  /\ process_task[s] = "wait"
  /\ \E k \in WindowSizes(s) : buffer' = [buffer EXCEPT ![s] = @ - k]
  /\ \E f \in Features : window' = [window EXCEPT ![s] = f]
  /\ nWindow' = [nWindow EXCEPT ![s] = @ + 1]
  /\ process_task' = [process_task EXCEPT ![s] = "suggest"]
  /\ loop' = s
  /\ UNCHANGED << ws_pc, ping_task, registry, exc, peer_closed, firstOut, nReady,
                  nAdd, nAck, nDisconnect, buffer_open, result, nChords,
                  svcVars >>

\* A variant of SuggestReturn that goes on to the next window without
\* sending the result.
SuggestReturnSkipsSend(s) ==
  /\ loop = s
  /\ process_task[s] = "suggest"
  /\ loop' = Free
  /\ \/ /\ process_task' = [process_task EXCEPT ![s] = "wait"]
        /\ result' = [result EXCEPT ![s] = suggest(window[s])]
        /\ UNCHANGED window
     \/ /\ process_task' = [process_task EXCEPT ![s] = "raised_suggest"]
        /\ window' = [window EXCEPT ![s] = None]
        /\ UNCHANGED result
  /\ UNCHANGED << ws_pc, ping_task, buffer, registry, exc, peer_closed, firstOut,
                  nReady, nAdd, nAck, nDisconnect, buffer_open, nWindow,
                  nChords, svcVars >>

\* Lines 213-214: suggest returns and the task suspends in the send of the
\* chords message, or suggest raises and ends the task.
SuggestReturn(s) ==
  /\ loop = s
  /\ process_task[s] = "suggest"
  /\ loop' = Free
  /\ \/ /\ process_task' = [process_task EXCEPT ![s] = "send"]
        /\ result' = [result EXCEPT ![s] = suggest(window[s])]
        /\ UNCHANGED window
     \/ /\ process_task' = [process_task EXCEPT ![s] = "raised_suggest"]
        /\ window' = [window EXCEPT ![s] = None]
        /\ UNCHANGED result
  /\ UNCHANGED << ws_pc, ping_task, buffer, registry, exc, peer_closed, firstOut,
                  nReady, nAdd, nAck, nDisconnect, buffer_open, nWindow,
                  nChords, svcVars >>

\* Lines 214, 212: the chords message is sent and the task waits for the
\* next window, or manager.send_json raises and ends the task.  The locals
\* features and chords are dead until the next window rebinds them, and go
\* with a task that ends.
SendChords(s) ==
  /\ loop = Free
  /\ process_task[s] = "send"
  /\ \/ /\ process_task' = [process_task EXCEPT ![s] = "wait"]
        /\ firstOut' = [firstOut EXCEPT ![s] = First(s, "chords")]
        /\ nChords' = [nChords EXCEPT ![s] = @ + 1]
        /\ UNCHANGED registry
     \/ /\ process_task' = [process_task EXCEPT ![s] = "raised_send"]
        /\ registry' = ManagerSendFailed(s)
        /\ UNCHANGED << firstOut, nChords >>
  /\ window' = [window EXCEPT ![s] = None]
  /\ result' = [result EXCEPT ![s] = None]
  /\ UNCHANGED << ws_pc, ping_task, buffer, loop, exc, peer_closed, nReady, nAdd,
                  nAck, nDisconnect, buffer_open, nWindow, svcVars >>

\* One step of session s.
SessionStep(s) ==
  \/ Connect(s)
  \/ SendReady(s)
  \/ ReceiveValid(s)
  \/ ReceiveMalformed(s)
  \/ ClientClose(s)
  \/ ReceiveDisconnect(s)
  \/ BufferAdd(s)
  \/ SendAck(s)
  \/ Disconnect(s)
  \/ HeartbeatTick(s)
  \/ HeartbeatSend(s)
  \/ NextWindow(s)
  \/ SuggestReturn(s)
  \/ SendChords(s)

\* ------------------------------------------------------------ MusicService

Invocations == {"r1", "r2"}

\* req.file_path: two files with the same audio content and a third one.
Paths == {"a.wav", "a_copy.wav", "b.wav"}

\* RedisCache.get_chords: the stored chords or None; None without a backend.
CacheGet(f) == IF redis_up THEN cache[Fingerprint(f)] ELSE None

\* RedisCache.set_chords: best-effort write; dropped without a backend.
CacheSet(f, c) ==
  IF redis_up THEN [cache EXCEPT ![Fingerprint(f)] = c] ELSE cache

\* Lines 94-106 and 135-138: the cache is built at startup over the Redis
\* client, or over None when Redis is not reachable.
InitService ==
  /\ svc_pc = [i \in Invocations |-> "idle"]
  /\ file_path = [i \in Invocations |-> None]
  /\ audio_bytes = [i \in Invocations |-> None]
  /\ features = [i \in Invocations |-> None]
  /\ chords = [i \in Invocations |-> None]
  /\ accompaniment = [i \in Invocations |-> None]
  /\ cache = [k \in Fingerprints |-> None]
  /\ redis_up \in BOOLEAN
  /\ calls = [i \in Invocations |-> << >>]
  /\ got = [i \in Invocations |-> "unset"]
  /\ written = [i \in Invocations |-> {}]
  /\ after = [i \in Invocations |-> {}]

\* The awaited call raised: the exception leaves __call__.
Abort(i) ==
  /\ svc_pc' = [svc_pc EXCEPT ![i] = "failed"]
  /\ UNCHANGED << file_path, audio_bytes, features, chords, accompaniment,
                  cache, redis_up, calls, got, written >>

\* The invocation goes on to await the call named next.
Await(i, next) ==
  /\ svc_pc' = [svc_pc EXCEPT ![i] = next]
  /\ calls' = [calls EXCEPT ![i] = Append(@, next)]

\* Lines 179-181, 153-154, 140-141: a request arrives, get_service builds a
\* MusicService over the shared cache and __call__ awaits load_audio.
Request(i) ==
  /\ loop = Free
  /\ svc_pc[i] = "idle"
  /\ UNCHANGED sessVars
  /\ after' = [after EXCEPT ![i] = {j \in Invocations : svc_pc[j] = "done"}]
  /\ \E p \in Paths : file_path' = [file_path EXCEPT ![i] = p]
  /\ Await(i, "load")
  /\ UNCHANGED << audio_bytes, features, chords, accompaniment, cache, redis_up,
                  got, written >>

\* Lines 141-143: load_audio returns; extract_mfcc goes to the thread pool.
LoadAudio(i) ==
  /\ loop = Free
  /\ svc_pc[i] = "load"
  /\ UNCHANGED << sessVars, after >>
  /\ \/ /\ audio_bytes' = [audio_bytes EXCEPT ![i] = load_audio(file_path[i])]
        /\ Await(i, "extract")
        /\ UNCHANGED << file_path, features, chords, accompaniment, cache,
                        redis_up, got, written >>
     \/ Abort(i)

\* Lines 143-144: extract_mfcc returns; denoise goes to the thread pool.
ExtractMfcc(i) ==
  /\ loop = Free
  /\ svc_pc[i] = "extract"
  /\ UNCHANGED << sessVars, after >>
  /\ \/ /\ features' = [features EXCEPT ![i] = extract_mfcc(audio_bytes[i])]
        /\ Await(i, "denoise")
        /\ UNCHANGED << file_path, audio_bytes, chords, accompaniment, cache,
                        redis_up, got, written >>
     \/ Abort(i)

\* Lines 144-145: denoise returns; the invocation awaits cache.get_chords.
Denoise(i) ==
  /\ loop = Free
  /\ svc_pc[i] = "denoise"
  /\ UNCHANGED << sessVars, after >>
  /\ \/ /\ features' = [features EXCEPT ![i] = denoise(features[i])]
        /\ Await(i, "get")
        /\ UNCHANGED << file_path, audio_bytes, chords, accompaniment, cache,
                        redis_up, got, written >>
     \/ Abort(i)

\* A variant of GetChords that runs suggest whatever get_chords returned.
GetChordsIgnoresHit(i) ==
  /\ loop = Free
  /\ svc_pc[i] = "get"
  /\ UNCHANGED << sessVars, after >>
  /\ chords' = [chords EXCEPT ![i] = CacheGet(features[i])]
  /\ got' = [got EXCEPT ![i] = CacheGet(features[i])]
  /\ Await(i, "suggest")
  /\ UNCHANGED << file_path, audio_bytes, features, accompaniment, cache,
                  redis_up, written >>

\* Lines 145-147 and 149: get_chords returns; on None suggest goes to the
\* thread pool, otherwise generate does.
GetChords(i) ==
  /\ loop = Free
  /\ svc_pc[i] = "get"
  /\ UNCHANGED << sessVars, after >>
  /\ chords' = [chords EXCEPT ![i] = CacheGet(features[i])]
  /\ got' = [got EXCEPT ![i] = CacheGet(features[i])]
  /\ IF CacheGet(features[i]) = None
     THEN Await(i, "suggest")
     ELSE Await(i, "generate")
  /\ UNCHANGED << file_path, audio_bytes, features, accompaniment, cache,
                  redis_up, written >>

\* A variant of Suggest that stores an entry for the features when suggest
\* raises.
SuggestCachesFailure(i) ==
  /\ loop = Free
  /\ svc_pc[i] = "suggest"
  /\ UNCHANGED << sessVars, after >>
  /\ \/ /\ chords' = [chords EXCEPT ![i] = suggest(features[i])]
        /\ Await(i, "set")
        /\ UNCHANGED << file_path, audio_bytes, features, accompaniment, cache,
                        redis_up, got, written >>
     \/ /\ svc_pc' = [svc_pc EXCEPT ![i] = "failed"]
        /\ cache' = CacheSet(features[i], "")
        /\ UNCHANGED << file_path, audio_bytes, features, chords, accompaniment,
                        redis_up, calls, got, written >>

\* Lines 147-148: suggest returns; the invocation awaits cache.set_chords.
Suggest(i) ==
  /\ loop = Free
  /\ svc_pc[i] = "suggest"
  /\ UNCHANGED << sessVars, after >>
  /\ \/ /\ chords' = [chords EXCEPT ![i] = suggest(features[i])]
        /\ Await(i, "set")
        /\ UNCHANGED << file_path, audio_bytes, features, accompaniment, cache,
                        redis_up, got, written >>
     \/ Abort(i)

\* A variant of SetChords that stores the request's path in place of the
\* chords.
SetChordsStoresPath(i) ==
  /\ loop = Free
  /\ svc_pc[i] = "set"
  /\ UNCHANGED << sessVars, after >>
  /\ cache' = CacheSet(features[i], file_path[i])
  /\ written' = [written EXCEPT ![i] =
                   IF redis_up
                   THEN @ \cup {<< Fingerprint(features[i]), file_path[i] >>}
                   ELSE @]
  /\ Await(i, "generate")
  /\ UNCHANGED << file_path, audio_bytes, features, chords, accompaniment,
                  redis_up, got >>

\* A variant of SetChords that lets the failure of a write without a backend
\* leave __call__.
SetChordsRaisesOnOutage(i) ==
  /\ loop = Free
  /\ svc_pc[i] = "set"
  /\ UNCHANGED << sessVars, after >>
  /\ IF redis_up
     THEN /\ cache' = CacheSet(features[i], chords[i])
          /\ written' = [written EXCEPT ![i] =
                           @ \cup {<< Fingerprint(features[i]), chords[i] >>}]
          /\ Await(i, "generate")
          /\ UNCHANGED << file_path, audio_bytes, features, chords,
                          accompaniment, redis_up, got >>
     ELSE Abort(i)

\* A variant of SetChords that returns without writing.
SetChordsSkipsWrite(i) ==
  /\ loop = Free
  /\ svc_pc[i] = "set"
  /\ UNCHANGED << sessVars, after >>
  /\ Await(i, "generate")
  /\ UNCHANGED << file_path, audio_bytes, features, chords, accompaniment,
                  cache, redis_up, got, written >>

\* Lines 148-149: set_chords returns; generate goes to the thread pool.
SetChords(i) ==
  /\ loop = Free
  /\ svc_pc[i] = "set"
  /\ UNCHANGED << sessVars, after >>
  /\ cache' = CacheSet(features[i], chords[i])
  /\ written' = [written EXCEPT ![i] =
                   IF redis_up
                   THEN @ \cup {<< Fingerprint(features[i]), chords[i] >>}
                   ELSE @]
  /\ Await(i, "generate")
  /\ UNCHANGED << file_path, audio_bytes, features, chords, accompaniment,
                  redis_up, got >>

\* Lines 149-150: generate returns and __call__ returns the response.
Generate(i) ==
  /\ loop = Free
  /\ svc_pc[i] = "generate"
  /\ UNCHANGED << sessVars, after >>
  /\ \/ /\ accompaniment' = [accompaniment EXCEPT ![i] = generate(chords[i])]
        /\ svc_pc' = [svc_pc EXCEPT ![i] = "done"]
        /\ UNCHANGED << file_path, audio_bytes, features, chords, cache,
                        redis_up, calls, got, written >>
     \/ Abort(i)

\* One step of invocation i.
ServiceStep(i) ==
  \/ Request(i)
  \/ LoadAudio(i)
  \/ ExtractMfcc(i)
  \/ Denoise(i)
  \/ GetChords(i)
  \/ Suggest(i)
  \/ SetChords(i)
  \/ Generate(i)

\* ---------------------------------------------------------- specifications

\* The streaming sessions, with Redis reachable and no request in progress.
Init == InitSessions /\ InitService /\ redis_up

Next == \E s \in Sessions : SessionStep(s)

Spec == Init /\ [][Next]_vars

\* The request/response pipeline.
InitServiceOnly == InitSessions /\ InitService

NextService == \E i \in Invocations : ServiceStep(i)

SpecService == InitServiceOnly /\ [][NextService]_vars

\* Sessions and a request on the same event loop: the sessions on their
\* failure-free paths, beside one invocation of MusicService.
NextApp ==
  \/ \E s \in Sessions :
       \/ Connect(s) /\ ws_pc'[s] = "send_ready"
       \/ SendReady(s) /\ ws_pc'[s] = "receive"
       \/ ReceiveValid(s)
       \/ BufferAdd(s)
       \/ SendAck(s) /\ ws_pc'[s] = "receive"
       \/ Disconnect(s)
       \/ HeartbeatTick(s)
       \/ HeartbeatSend(s) /\ ping_task'[s] = "sleep"
       \/ NextWindow(s)
       \/ SuggestReturn(s) /\ process_task'[s] = "send"
       \/ SendChords(s) /\ process_task'[s] = "wait"
  \/ ServiceStep("r1")

SpecApp == Init /\ [][NextApp]_vars

\* The event loop runs every coroutine that is ready: the handler, the
\* heartbeat task and the processing task of a session each get their next
\* step.  Nothing obliges a client to send or to close.
HandlerStep(s) ==
  SendReady(s) \/ ReceiveDisconnect(s) \/ BufferAdd(s) \/ SendAck(s)
    \/ Disconnect(s)

HeartbeatStep(s) == HeartbeatTick(s) \/ HeartbeatSend(s)

ProcessStep(s) == NextWindow(s) \/ SendChords(s)

LoopFairness ==
  \A s \in Sessions :
    /\ WF_vars(HandlerStep(s))
    /\ WF_vars(HeartbeatStep(s))
    /\ WF_vars(ProcessStep(s))

\* The scheduling of the loop alone: a call of suggest may take any time.
FairLoopSpec == Spec /\ LoopFairness

\* The scheduling of the loop, and every call of suggest returns or raises.
FairSpec == Spec /\ LoopFairness /\ \A s \in Sessions : WF_vars(SuggestReturn(s))

\* ------------------------------------------------------------------ claims

\* C1: an inbound message that fails envelope validation is rejected for
\* that message only: the step that receives it leaves the session Active
\* and waiting for the next message, adds nothing to the buffer and sends no
\* ack.
C1_MalformedKeepsSession ==
  [][\A s \in Sessions :
       ReceiveMalformed(s) =>
         /\ ws_pc'[s] = "receive"
         /\ ping_task'[s] = ping_task[s]
         /\ process_task'[s] = process_task[s]
         /\ buffer'[s] = buffer[s]
         /\ nAck'[s] = nAck[s]]_vars

\* C2: in every reachable state the three activities of a session (receive
\* loop, heartbeat, processing) are all running or all not running.
C2_AllOrNothing ==
  \A s \in Sessions :
    \/ ReceiveRunning(s) /\ HeartbeatRunning(s) /\ ProcessRunning(s)
    \/ ~ReceiveRunning(s) /\ ~HeartbeatRunning(s) /\ ~ProcessRunning(s)

\* A send has raised in one of the three activities of session s.
SendRaised(s) ==
  \/ ping_task[s] = "raised_send"
  \/ process_task[s] = "raised_send"
  \/ exc[s] = "send"

\* The session is torn down: no activity runs and the handler has called
\* manager.disconnect.
TornDown(s) ==
  /\ ws_pc[s] = "closed"
  /\ ~HeartbeatRunning(s)
  /\ ~ProcessRunning(s)
  /\ nDisconnect[s] >= 1

\* C3: a send that fails in any of the three activities of a session leads
\* to the session being torn down.
C3_SendFailureLeadsToTeardown ==
  \A s \in Sessions : SendRaised(s) ~> TornDown(s)

\* A CPU-bound collaborator call is in progress for session s.
SessionInCpuCall(s) == process_task[s] = "suggest"

\* A CPU-bound collaborator call is in progress for invocation i.
RequestInCpuCall(i) == svc_pc[i] \in {"extract", "denoise", "suggest", "generate"}

\* C4: while a CPU-bound collaborator call is in progress for a request or
\* for a session, the heartbeat and the receive loop of every other session
\* can take their next step.
C4_CpuCallsLeaveLoopFree ==
  \A t \in Sessions :
    ( \/ \E s \in Sessions \ {t} : SessionInCpuCall(s)
      \/ \E i \in Invocations : RequestInCpuCall(i) )
    => /\ ping_task[t] = "sleep" => ENABLED HeartbeatTick(t)
       /\ ping_task[t] = "send" => ENABLED HeartbeatSend(t)
       /\ ws_pc[t] = "receive" /\ ~peer_closed[t] => ENABLED ReceiveMalformed(t)
       /\ ws_pc[t] = "send_ack" => ENABLED SendAck(t)

\* C5: a failure of chord suggestion for one window aborts that window
\* only: whichever way suggest comes back, the session is not torn down and
\* the processing task is still running, ready for later windows.
C5_SuggestFailureKeepsProcessing ==
  [][\A s \in Sessions :
       SuggestReturn(s) =>
         /\ ProcessRunning(s)'
         /\ ws_pc'[s] = ws_pc[s]
         /\ ping_task'[s] = ping_task[s]]_vars

\* The stages of one invocation, on a cache miss and on a cache hit.
MissOrder ==
  << "load", "extract", "denoise", "get", "suggest", "set", "generate" >>

HitOrder == << "load", "extract", "denoise", "get", "generate" >>

IsPrefix(p, q) == Len(p) <= Len(q) /\ \A k \in 1..Len(p) : p[k] = q[k]

Called(i, stage) == \E k \in 1..Len(calls[i]) : calls[i][k] = stage

\* The call the invocation made last.
LastCall(i) == calls[i][Len(calls[i])]

\* C6: the stages of one invocation run in the order load, extract, denoise,
\* get, then on a miss suggest, set, generate and on a hit generate alone;
\* after a hit neither suggest nor set is invoked, nothing is written, and
\* the accompaniment returned is generated from the cached chords.
C6_StageOrder ==
  \A i \in Invocations :
    /\ got[i] = "unset" => IsPrefix(calls[i], HitOrder) /\ ~Called(i, "generate")
    /\ got[i] = None => IsPrefix(calls[i], MissOrder) /\ Called(i, "suggest")
    /\ got[i] \notin {"unset", None} =>
         /\ IsPrefix(calls[i], HitOrder)
         /\ Called(i, "generate")
         /\ written[i] = {}
         /\ chords[i] = got[i]
         /\ svc_pc[i] = "done" => accompaniment[i] = generate(got[i])
    /\ svc_pc[i] \notin {"idle", "failed", "done"} => LastCall(i) = svc_pc[i]
    /\ svc_pc[i] = "done" => LastCall(i) = "generate"

\* C6 witness: an invocation has returned after a cache hit, and another
\* after a miss.
C6_Witness ==
  \E i, j \in Invocations :
    /\ svc_pc[i] = "done" /\ calls[i] = HitOrder
    /\ svc_pc[j] = "done" /\ calls[j] = MissOrder

\* C7: an invocation writes the cache only in its set stage, after suggest
\* has returned, and writes the computed chords under the fingerprint of its
\* features; an invocation that failed has written nothing, unless it failed
\* in generate after its own suggest and set; the cache holds nothing but
\* what the invocations' set stages wrote.
C7_NoPartialCacheWrite ==
  /\ \A i \in Invocations :
       /\ written[i] # {} =>
            /\ Called(i, "suggest") /\ svc_pc[i] \notin {"suggest", "set"}
            /\ written[i] = {<< Fingerprint(features[i]), suggest(features[i]) >>}
       /\ svc_pc[i] = "failed" /\ LastCall(i) # "generate" => written[i] = {}
  /\ \A k \in Fingerprints :
       cache[k] # None => \E i \in Invocations : << k, cache[k] >> \in written[i]

\* C7 witness: one invocation failed in suggest and left no entry under its
\* fingerprint; the other failed in generate after its suggest and left its
\* entry.
C7_Witness ==
  \E i, j \in Invocations :
    /\ svc_pc[i] = "failed" /\ LastCall(i) = "suggest"
    /\ written[i] = {} /\ cache[Fingerprint(features[i])] = None
    /\ svc_pc[j] = "failed" /\ LastCall(j) = "generate"
    /\ Called(j, "set")
    /\ cache[Fingerprint(features[j])] = suggest(features[j])

\* C8: once the receive loop of a connected session has met its end (here:
\* the client has closed the connection), teardown completes, whatever a
\* call of suggest in progress does, and the registry then holds no entry
\* for the session.
C8_TeardownCompletes ==
  \A s \in Sessions :
    peer_closed[s] ~> (ws_pc[s] = "closed" /\ s \notin registry)

\* C9: the ready message is sent at most once and no other outbound message
\* of the session (ping, ack, chords) is sent before it.
C9_ReadyIsFirst ==
  \A s \in Sessions : firstOut[s] \in {"none", "ready"} /\ nReady[s] <= 1

\* C10: the acks sent never exceed the successful adds and trail them by at
\* most one; whenever the loop is back at receive_json or in buffer.add every
\* added message has been acknowledged; a message that fails validation or
\* whose add raises CapacityExceeded gets no ack.
C10_AckIffAdded ==
  \A s \in Sessions :
    /\ nAck[s] <= nAdd[s]
    /\ nAdd[s] <= nAck[s] + 1
    /\ ws_pc[s] \in {"receive", "add"} => nAck[s] = nAdd[s]
    /\ exc[s] \in {"capacity", "validation", "disconnect"} => nAck[s] = nAdd[s]

\* C10 witness: one session has had two messages added and acknowledged and
\* a third rejected by the buffer, and no third ack was sent.
C10_Witness ==
  \E s \in Sessions :
    exc[s] = "capacity" /\ nAdd[s] = 2 /\ nAck[s] = 2 /\ ws_pc[s] = "closed"

\* C11: two invocations on identical features, interleaved in any way, that
\* have both returned hold equal chords and equal accompaniment, and with
\* Redis reachable the cache holds that chords value under their
\* fingerprint.
C11_ConcurrentInvocationsAgree ==
  \A i, j \in Invocations :
    svc_pc[i] = "done" /\ svc_pc[j] = "done" /\ features[i] = features[j] =>
      /\ chords[i] = chords[j]
      /\ accompaniment[i] = accompaniment[j]
      /\ chords[i] = suggest(features[i])
      /\ written[i] \subseteq {<< Fingerprint(features[i]), chords[i] >>}
      /\ redis_up => cache[Fingerprint(features[i])] = chords[i]

\* C11 witness: two invocations on the same audio from different paths have
\* both missed the cache, both run suggest, both written, and both returned.
C11_Witness ==
  /\ redis_up
  /\ file_path["r1"] = "a.wav" /\ file_path["r2"] = "a_copy.wav"
  /\ \A i \in Invocations : svc_pc[i] = "done" /\ calls[i] = MissOrder
  /\ written["r1"] = written["r2"] /\ written["r1"] # {}

C13_SecondCallServedFromCache ==
  \A i, j \in Invocations :
    redis_up /\ j \in after[i] /\ file_path[i] = file_path[j] =>
      /\ ~Called(i, "suggest") /\ ~Called(i, "set")
      /\ written[i] = {}
      /\ got[i] # "unset" => got[i] = chords[j]
      /\ svc_pc[i] = "done" =>
           /\ calls[i] = HitOrder
           /\ chords[i] = chords[j]
           /\ accompaniment[i] = accompaniment[j]

\* C13 witness: a second request for the path of a returned first one has
\* itself returned.
C13_Witness ==
  /\ redis_up
  /\ "r1" \in after["r2"] /\ file_path["r1"] = file_path["r2"]
  /\ svc_pc["r2"] = "done" /\ calls["r1"] = MissOrder

\* C14: in a streaming session suggestion runs on a window only after the
\* cache was consulted and missed: no window whose fingerprint is cached is
\* handed to suggest.
C14_WindowHitSkipsSuggest ==
  \A s \in Sessions :
    process_task[s] = "suggest" => CacheGet(window[s]) = None

\* A send through manager.send_json is in progress on the connection of s.
ManagerSendPending(s) ==
  \/ ws_pc[s] \in {"send_ready", "send_ack"}
  \/ process_task[s] = "send"

\* A send that bypasses the manager is in progress on the connection of s.
DirectSendPending(s) == ping_task[s] = "send"

\* C15: every outbound message goes through the manager's send, so no send
\* is in progress on a connection next to a send the manager is making on
\* it.
C15_SendsSerialized ==
  \A s \in Sessions : ~(DirectSendPending(s) /\ ManagerSendPending(s))

\* C16: the buffer of a session that has been torn down is closed.
C16_TeardownClosesBuffer ==
  \A s \in Sessions :
    ws_pc[s] = "closed" /\ exc[s] # "connect" => ~buffer_open[s]

\* C17: each outbound stream of a session keeps its order: the ack being
\* sent is the one for the last message added, and the chords message being
\* sent carries the result of suggest for the last window emitted, every
\* earlier window having been answered.
C17_StreamsKeepOrder ==
  \A s \in Sessions :
    /\ nAck[s] <= nAdd[s] /\ nAdd[s] <= nAck[s] + 1
    /\ ws_pc[s] = "send_ack" => nAdd[s] = nAck[s] + 1
    /\ ws_pc[s] \in {"receive", "add"} => nAdd[s] = nAck[s]
    /\ nChords[s] <= nWindow[s] /\ nWindow[s] <= nChords[s] + 1
    /\ process_task[s] = "wait" => nWindow[s] = nChords[s]
    /\ process_task[s] = "send" =>
         /\ nWindow[s] = nChords[s] + 1
         /\ window[s] \in Features
         /\ result[s] = suggest(window[s])

\* C17 witness: a session has sent the chords for its second window and is
\* sending its second ack.
C17_Witness ==
  \E s \in Sessions :
    nChords[s] = 2 /\ nAck[s] = 1 /\ ws_pc[s] = "send_ack"

\* C18: a step that takes the handler of one session into or through its
\* teardown leaves the tasks, the buffer, the handler and the registry entry
\* of every other session as they were.
C18_TeardownLeavesOthers ==
  [][\A s \in Sessions :
       ws_pc'[s] # ws_pc[s] /\ ws_pc'[s] \in {"disconnect", "closed"} =>
         \A t \in Sessions \ {s} :
           /\ ping_task'[t] = ping_task[t]
           /\ process_task'[t] = process_task[t]
           /\ buffer'[t] = buffer[t]
           /\ buffer_open'[t] = buffer_open[t]
           /\ ws_pc'[t] = ws_pc[t]
           /\ (t \in registry') = (t \in registry)]_vars

\* C18 witness: one session was torn down by a validation error while the
\* other is registered with both tasks running and chunks in its buffer.
C18_Witness ==
  /\ ws_pc["s1"] = "closed" /\ exc["s1"] = "validation"
  /\ "s2" \in registry
  /\ HeartbeatRunning("s2") /\ ProcessRunning("s2")
  /\ buffer["s2"] > 0

\* C19: once the handler of a connected session is in its finally clause
\* neither task runs any more, manager.disconnect is called exactly once,
\* and no ping or chords message is sent from then on.
C19_CancelThenDisconnectOnce ==
  /\ [](\A s \in Sessions :
          /\ nDisconnect[s] =
               IF ws_pc[s] = "closed" /\ exc[s] # "connect" THEN 1 ELSE 0
          /\ ws_pc[s] \in {"disconnect", "closed"} =>
               ~HeartbeatRunning(s) /\ ~ProcessRunning(s))
  /\ [][\A s \in Sessions :
          ws_pc[s] \in {"disconnect", "closed"} =>
            ~HeartbeatSend(s) /\ ~SendChords(s)]_vars

\* C19 witness: a handler has ended after its finally clause cancelled a
\* heartbeat task and a processing task that were both in a send.
C19_Witness ==
  \E s \in Sessions :
    /\ ws_pc[s] = "closed" /\ nDisconnect[s] = 1
    /\ ping_task[s] = "cancelled" /\ process_task[s] = "cancelled"
    /\ nWindow[s] = nChords[s] + 1

====
